---------------------------- MODULE Spec2Model ----------------------------
(***************************************************************************)
(* Model of the session-translating MCP proxy of src/server.mjs: the       *)
(* POST /mcp handler, callUpstreamMcp, extractFirstSseDataJson,            *)
(* generateSessionId and the process-wide sessionMap.                      *)
(*                                                                         *)
(* A handler runs without interruption between two awaits (node runs one   *)
(* callback at a time), so every action below is one such run: from the    *)
(* arrival of the request to the first await or response, and from the     *)
(* settling of an awaited promise to the next await or response.           *)
(***************************************************************************)
EXTENDS Integers, Sequences, FiniteSets, TLC

(***************************************************************************)
(* Bounds of the model.                                                    *)
(***************************************************************************)
\* requests suspended on an upstream call at the same time
MaxInflight == 2
\* requests received in one run of the process
MaxRequests == 3

(***************************************************************************)
(* Program constants.                                                      *)
(***************************************************************************)
InvalidRequest == -32600
ServerError == -32000
HttpNoContent == 204
HttpBadRequest == 400
HttpInternalError == 500
\* sendJson's default statusCode
DefaultStatus == 200

(***************************************************************************)
(* Values.  Header values and session ids are tokens <<tag, a, b>>.        *)
(***************************************************************************)
\* JavaScript undefined: an absent request header, a missing Map key
Undefined == <<"undefined", 0, 0>>
\* JavaScript null: an absent response header (Headers.get)
Null == <<"null", 0, 0>>
\* the empty string
Empty == <<"string", 0, 0>>
\* `${Date.now().toString(16)}-${Math.random().toString(16).slice(2)}`
ProxyId(time, random) == <<"proxy", time, random>>
\* an opaque session id issued by the upstream
UpstreamId(k) == <<"upstream", k, 0>>

\* the values Date.now() and Math.random() take; ids drawn in different
\* milliseconds differ, so the initializes of one millisecond are looked at
Times == {1}
Randoms == {1, 2}

ProxyIds == {ProxyId(t, r) : t \in Times, r \in Randoms}
UpstreamIds == {UpstreamId(1), UpstreamId(2)}

\* JavaScript truthiness of a header value / session id
Truthy(v) == v \notin {Undefined, Null, Empty}

\* a ?? b
Coalesce(a, b) == IF a \in {Undefined, Null} THEN b ELSE a

(***************************************************************************)
(* JSON-RPC request bodies as the handler sees req.body.  A method string  *)
(* is kept as head \o tail, head being its first 14 characters, so that    *)
(* startsWith('notifications/') is a test on head.                         *)
(***************************************************************************)
Str(h, t) == [type |-> "string", head |-> h, tail |-> t]
NoMethod == [type |-> "undefined", head |-> "", tail |-> ""]
NumMethod == [type |-> "number", head |-> "", tail |-> ""]

Methods ==
    { Str("initialize", ""),
      Str("notifications/", "initialized"),
      Str("notifications", ""),
      Str("tools/call", "") }

\* rpc.id: absent, or the number 7
NoId == "undefined"
NullId == "null"
RpcIds == {NoId, "7"}

Rpc(s, m, i) == [shape |-> s, method |-> m, id |-> i]

\* the bodies a client may send; a notification carries no id
RpcBodies ==
    { Rpc("undefined", NoMethod, NoId), Rpc("string", NoMethod, NoId),
      Rpc("object", NumMethod, NoId), Rpc("object", NoMethod, "7") }
    \cup { Rpc("object", m, i) :
              m \in {Str("initialize", ""), Str("tools/call", "")}, i \in RpcIds }
    \cup { Rpc("object", m, NoId) :
              m \in {Str("notifications/", "initialized"), Str("notifications", "")} }

\* the header values a client may send
ClientHeaders == {Undefined, Empty, UpstreamId(1)} \cup ProxyIds

(***************************************************************************)
(* Upstream responses.                                                     *)
(***************************************************************************)
Statuses == {200, 404}

Line(p, r) == [prefix |-> p, rest |-> r]
DataA == Line("data: ", "{\"result\":\"a\"}")
DataB == Line("data: ", "{\"result\":\"b\"}")
DataBad == Line("data: ", "oops")
Event == Line("event: ", "message")
Blank == Line("", "")

\* an upstream response: its status, its Mcp-Session-Id header (Null: none) and
\* its body, response.text() split at '\n'
Response(s, h, b) == [status |-> s, session |-> h, body |-> b]

\* the responses the upstream answers with
UpstreamResponses ==
    { Response(200, UpstreamId(1), <<Event, DataA, Blank>>),
      Response(200, UpstreamId(2), <<DataB, DataBad>>),
      Response(200, Null, <<Event, DataA, Blank>>),
      Response(200, Empty, <<DataB, DataBad>>),
      Response(404, UpstreamId(1), <<Event, DataA, Blank>>),
      Response(200, UpstreamId(1), <<Event, Blank>>),
      Response(200, UpstreamId(2), <<DataBad, DataA>>) }


(***************************************************************************)
(* extractFirstSseDataJson and JSON.parse.  A result is either a value or  *)
(* a thrown Error with its message.                                        *)
(***************************************************************************)
NoPayload == [result |-> "none"]
Return(v) == [ok |-> TRUE, value |-> v, msg |-> ""]
Throw(m) == [ok |-> FALSE, value |-> NoPayload, msg |-> m]

\* JSON.parse(jsonText)
JSONparse(jsonText) ==
    CASE jsonText = "{\"result\":\"a\"}" -> Return([result |-> "a"])
      [] jsonText = "{\"result\":\"b\"}" -> Return([result |-> "b"])
      [] OTHER -> Throw("Unexpected token")

\* line.startsWith('data: ')
StartsWithData(line) == line.prefix = "data: "

\* dataLine.slice('data: '.length)
SliceData(line) == line.rest

\* a slip: the last matching line instead of the first
FindDataLine_Last(lines) ==
    LET hits == {i \in 1..Len(lines) : StartsWithData(lines[i])}
    IN IF hits = {} THEN 0 ELSE CHOOSE i \in hits : \A j \in hits : i >= j

\* rawSseText.split('\n').find(...): the index of the first matching line, 0 for none
FindDataLine(lines) ==
    LET hits == {i \in 1..Len(lines) : StartsWithData(lines[i])}
    IN IF hits = {} THEN 0 ELSE CHOOSE i \in hits : \A j \in hits : i <= j

extractFirstSseDataJson(rawSseText) ==
    LET dataLine == FindDataLine(rawSseText)
    IN IF dataLine = 0
       THEN Throw("No SSE data line found")
       ELSE JSONparse(SliceData(rawSseText[dataLine]))

(***************************************************************************)
(* The response object res of one request.                                 *)
(***************************************************************************)
NoBody == [kind |-> "none", id |-> NullId, code |-> 0, msg |-> "", payload |-> NoPayload]
EmptyBody == [kind |-> "empty", id |-> NullId, code |-> 0, msg |-> "", payload |-> NoPayload]
ErrorBody(i, c, m) == [kind |-> "error", id |-> i, code |-> c, msg |-> m, payload |-> NoPayload]
PayloadBody(p) == [kind |-> "payload", id |-> NullId, code |-> 0, msg |-> "", payload |-> p]

\* a response object nothing was written to
NewRes == [status |-> DefaultStatus, session |-> Undefined, body |-> NoBody, ended |-> 0]

\* res.setHeader('Mcp-Session-Id', v)
setHeader(res, v) == [res EXCEPT !.session = v]

\* res.status(code).end()
statusEnd(res, code) ==
    [res EXCEPT !.status = code, !.body = EmptyBody, !.ended = res.ended + 1]

\* a slip: res.end is never called
sendJson_NoEnd(res, payload, statusCode) ==
    [res EXCEPT !.status = statusCode, !.body = payload]

\* sendJson(res, payload, statusCode)
sendJson(res, payload, statusCode) ==
    [res EXCEPT !.status = statusCode, !.body = payload, !.ended = res.ended + 1]

\* rpc.id ?? null
IdOrNull(rpc) == IF rpc.id = NoId THEN NullId ELSE rpc.id

(***************************************************************************)
(* The POST /mcp handler, piece by piece.                                  *)
(***************************************************************************)
\* a slip: the type of rpc.method is not looked at
IsMalformed_NoMethodCheck(rpc) ==
    \/ rpc.shape = "undefined"
    \/ rpc.shape # "object"

\* !rpc || typeof rpc !== 'object' || typeof rpc.method !== 'string'
IsMalformed(rpc) ==
    \/ rpc.shape = "undefined"
    \/ rpc.shape # "object"
    \/ rpc.method.type # "string"

\* req.header('Mcp-Session-Id') ?? req.header('mcp-session-id') ?? null
ClientSessionId(hdr) == Coalesce(hdr, Coalesce(hdr, Null))

\* rpc.method.startsWith('notifications/')
IsNotification(rpc) == rpc.method.head = "notifications/"

\* rpc.method === 'initialize'
IsInitialize(rpc) == rpc.method = Str("initialize", "")

\* sessionMap.get(key)
MapGet(map, key) == IF key \in DOMAIN map THEN map[key] ELSE Undefined

\* a slip: an unknown session id is passed on as it came
ResolveSession_PassThrough(map, clientSessionId) ==
    IF Truthy(clientSessionId)
    THEN Coalesce(MapGet(map, clientSessionId), clientSessionId)
    ELSE Null

\* clientSessionId ? sessionMap.get(clientSessionId) : null
ResolveSession(map, clientSessionId) ==
    IF Truthy(clientSessionId) THEN MapGet(map, clientSessionId) ELSE Null

\* the number of sessionMap.get calls ResolveSession makes
ResolveReads(clientSessionId) == IF Truthy(clientSessionId) THEN 1 ELSE 0

\* a slip: the key is stored as the value too
MapSet_KeyAsValue(map, key, value) ==
    [k \in DOMAIN map \cup {key} |-> IF k = key THEN key ELSE map[k]]

\* sessionMap.set(key, value)
MapSet(map, key, value) ==
    [k \in DOMAIN map \cup {key} |-> IF k = key THEN value ELSE map[k]]

\* callUpstreamMcp: the Mcp-Session-Id request header, Undefined when not sent
UpstreamRequestHeader(upstreamSessionId) ==
    IF Truthy(upstreamSessionId) THEN upstreamSessionId ELSE Undefined

\* callUpstreamMcp: the upstreamSessionId of the returned object
ReturnedSessionId(responseHeader, upstreamSessionId) ==
    Coalesce(responseHeader, Coalesce(responseHeader, Coalesce(upstreamSessionId, Null)))

\* the catch block of the handler
CatchError(msg) == sendJson(NewRes, ErrorBody(NullId, ServerError, msg), HttpInternalError)

\* the answer to a malformed body
RejectMalformed ==
    sendJson(NewRes, ErrorBody(NullId, InvalidRequest, "Invalid Request"), HttpBadRequest)

\* a slip: a notification without a session is refused like a bound call
AckUnknownNotification_Refused ==
    sendJson(NewRes,
             ErrorBody(NullId, ServerError, "Missing or unknown Mcp-Session-Id. Call initialize first."),
             HttpBadRequest)

\* the answer to a notification without a session
AckUnknownNotification == statusEnd(NewRes, HttpNoContent)

\* a slip: the forwarded notification is acknowledged without the header
AckNotification_NoHeader(clientSessionId) == statusEnd(NewRes, HttpNoContent)

\* the answer to a forwarded notification
AckNotification(clientSessionId) ==
    statusEnd(setHeader(NewRes, clientSessionId), HttpNoContent)

\* the answer to a bound call without a session
RejectUnknownSession(rpc) ==
    sendJson(NewRes,
             ErrorBody(IdOrNull(rpc), ServerError, "Missing or unknown Mcp-Session-Id. Call initialize first."),
             HttpBadRequest)

\* a slip: the status is left at sendJson's default
RejectNoUpstreamSession_DefaultStatus(rpc) ==
    sendJson(NewRes,
             ErrorBody(IdOrNull(rpc), ServerError, "Upstream did not return Mcp-Session-Id"),
             DefaultStatus)

\* the answer to an initialize the upstream gave no session id for
RejectNoUpstreamSession(rpc) ==
    sendJson(NewRes,
             ErrorBody(IdOrNull(rpc), ServerError, "Upstream did not return Mcp-Session-Id"),
             HttpInternalError)

\* a slip in the initialize path: the header is set from the wrong variable
AnswerInitialize_UpstreamHeader(proxySessionId, upstreamSessionId, payload) ==
    sendJson(setHeader(NewRes, upstreamSessionId), PayloadBody(payload), DefaultStatus)

\* the answer to a successful initialize (both ids are in scope there)
AnswerInitialize(proxySessionId, upstreamSessionId, payload) ==
    sendJson(setHeader(NewRes, proxySessionId), PayloadBody(payload), DefaultStatus)

\* a slip: the bound call is answered without the session header
AnswerCall_NoHeader(clientSessionId, payload) ==
    sendJson(NewRes, PayloadBody(payload), DefaultStatus)

\* the answer to a successful bound call
AnswerCall(clientSessionId, payload) ==
    sendJson(setHeader(NewRes, clientSessionId), PayloadBody(payload), DefaultStatus)

(***************************************************************************)
(* The handler from the arrival of a request to its first await or to its  *)
(* response.  Answer: the response was sent.  Await: the handler called    *)
(* fetch with session header sent (Undefined: no such header) and is       *)
(* suspended; arg is the upstreamSessionId it resolved.                    *)
(***************************************************************************)
Answer(res, reads) ==
    [await |-> FALSE, res |-> res, arg |-> Null, sent |-> Undefined, reads |-> reads,
     calls |-> 0]

\* a slip: fetch is called a second time for the same request
Await_Twice(arg, sent, reads) ==
    [await |-> TRUE, res |-> NewRes, arg |-> arg, sent |-> sent, reads |-> reads,
     calls |-> 2]

Await(arg, sent, reads) ==
    [await |-> TRUE, res |-> NewRes, arg |-> arg, sent |-> sent, reads |-> reads,
     calls |-> 1]

HandleRequest(map, hdr, rpc) ==
    IF IsMalformed(rpc)
    THEN Answer(RejectMalformed, 0)
    ELSE LET clientSessionId == ClientSessionId(hdr)
             upstreamSessionId == ResolveSession(map, clientSessionId)
             reads == ResolveReads(clientSessionId)
         IN IF IsNotification(rpc)
            THEN IF ~Truthy(upstreamSessionId)
                 THEN Answer(AckUnknownNotification, reads)
                 ELSE Await(upstreamSessionId, upstreamSessionId, reads)
            ELSE IF IsInitialize(rpc)
            THEN Await(Null, UpstreamRequestHeader(Null), 0)
            ELSE IF ~Truthy(upstreamSessionId)
                 THEN Answer(RejectUnknownSession(rpc), reads)
                 ELSE Await(upstreamSessionId, UpstreamRequestHeader(upstreamSessionId), reads)

(***************************************************************************)
(* callUpstreamMcp after response.text(): the returned object or the       *)
(* thrown Error.                                                           *)
(***************************************************************************)
\* a slip: response.ok is not looked at
UpstreamResult_IgnoreStatus(ok, responseHeader, upstreamSessionId, rawText) ==
    LET decoded == extractFirstSseDataJson(rawText)
    IN IF ~decoded.ok
       THEN [ok |-> FALSE, msg |-> decoded.msg,
             upstreamSessionId |-> Null, payload |-> NoPayload]
       ELSE [ok |-> TRUE, msg |-> "",
             upstreamSessionId |-> ReturnedSessionId(responseHeader, upstreamSessionId),
             payload |-> decoded.value]

UpstreamResult(ok, responseHeader, upstreamSessionId, rawText) ==
    IF ~ok
    THEN [ok |-> FALSE, msg |-> "Upstream MCP error",
          upstreamSessionId |-> Null, payload |-> NoPayload]
    ELSE LET decoded == extractFirstSseDataJson(rawText)
         IN IF ~decoded.ok
            THEN [ok |-> FALSE, msg |-> decoded.msg,
                  upstreamSessionId |-> Null, payload |-> NoPayload]
            ELSE [ok |-> TRUE, msg |-> "",
                  upstreamSessionId |-> ReturnedSessionId(responseHeader, upstreamSessionId),
                  payload |-> decoded.value]

\* response.ok
ResponseOk(status) == status \in 200..299

\* generateSessionId()
generateSessionId(time, random) == ProxyId(time, random)

(***************************************************************************)
(* State.                                                                  *)
(***************************************************************************)
VARIABLES
    sessionMap,   \* the Session Table: proxy session id -> upstream session id
    inflight,     \* the suspended handlers, by slot
    nreq,         \* requests received so far
    last,         \* what the latest step did: the upstream call or the response
    initLog,      \* history: <<proxy id, upstream id>> of every successful initialize
    sseText,      \* the decoder on its own: the text it is given, split at '\n'
    decoded       \* the decoder on its own: what it returned or threw

vars == <<sessionMap, inflight, nreq, last, initLog>>
decodeVars == <<sseText, decoded>>

Slots == 1..MaxInflight

NoRpc == Rpc("undefined", NoMethod, NoId)

\* a handler: pc is the await it is suspended on; rpc, hdr, arg are its locals
\* (the request, its session header, the resolved upstreamSessionId); sent is
\* the session header of its upstream call, reads its sessionMap.get calls.
\* A suspended handler keeps of rpc and hdr what the rest of its path reads:
\* the initialize path reads rpc.id and never the header, the other two read
\* the header and never rpc.id.
Idle == [pc |-> "idle", rpc |-> NoRpc, hdr |-> Undefined, arg |-> Null,
         sent |-> Undefined, reads |-> 0, calls |-> 0]

\* the step was internal: no upstream call was started and no response sent
NoEvent ==
    [type |-> "none", slot |-> 0, rpc |-> NoRpc, hdr |-> Undefined, sent |-> Undefined,
     calls |-> 0, reads |-> 0, res |-> NewRes, fetch |-> "none", status |-> 0,
     rhdr |-> Null, text |-> "none", body |-> <<>>, gen |-> Undefined]

\* the handler of request r called fetch and was suspended in slot i
CallEvent(i, r) ==
    [NoEvent EXCEPT !.type = "upcall", !.slot = i, !.rpc = r.rpc, !.hdr = r.hdr,
                    !.sent = r.sent, !.calls = r.calls, !.reads = r.reads]

\* the handler of request r, of slot i (0: never suspended), sent res after
\* `calls` upstream calls
ResponseEvent(i, r, calls, res) ==
    [NoEvent EXCEPT !.type = "response", !.slot = i, !.rpc = r.rpc, !.hdr = r.hdr,
                    !.sent = r.sent, !.calls = calls, !.reads = r.reads, !.res = res]

\* request r suspended on fetch
Suspended(r) ==
    IF IsInitialize(r.rpc)
    THEN [r EXCEPT !.pc = "fetch", !.hdr = Undefined]
    ELSE [r EXCEPT !.pc = "fetch", !.rpc.id = NoId]

\* the decoder has not been called
NotDecoded == [ok |-> FALSE, value |-> NoPayload, msg |-> "not called"]

Init ==
    /\ sessionMap = <<>>
    /\ inflight = [i \in Slots |-> Idle]
    /\ nreq = 0
    /\ last = NoEvent
    /\ initLog = {}
    /\ sseText = <<>>
    /\ decoded = NotDecoded

\* the slot a newly suspended handler takes: the lowest idle one
FreeSlot ==
    CHOOSE i \in Slots :
        inflight[i].pc = "idle" /\ \A j \in Slots : inflight[j].pc = "idle" => i <= j

(***************************************************************************)
(* A request arrives: the handler runs to its response or its first await. *)
(***************************************************************************)
Receive(hdr, rpc) ==
    /\ nreq < MaxRequests
    /\ nreq' = nreq + 1
    /\ LET step == HandleRequest(sessionMap, hdr, rpc)
           req == [Idle EXCEPT !.rpc = rpc, !.hdr = hdr, !.arg = step.arg,
                               !.sent = step.sent, !.reads = step.reads,
                               !.calls = step.calls]
       IN IF step.await
          THEN /\ \E i \in Slots : inflight[i].pc = "idle"
               /\ inflight' = [inflight EXCEPT ![FreeSlot] = Suspended(req)]
               /\ last' = CallEvent(FreeSlot, req)
          ELSE /\ inflight' = inflight
               /\ last' = ResponseEvent(0, req, req.calls, step.res)
    /\ UNCHANGED <<sessionMap, initLog, decodeVars>>

(***************************************************************************)
(* fetch rejects (transport failure): the catch block answers.             *)
(***************************************************************************)
FetchRejects(i) ==
    /\ inflight[i].pc = "fetch"
    /\ inflight' = [inflight EXCEPT ![i] = Idle]
    /\ last' = [ResponseEvent(i, inflight[i], inflight[i].calls, CatchError("fetch failed"))
                    EXCEPT !.fetch = "rejected"]
    /\ UNCHANGED <<sessionMap, nreq, initLog, decodeVars>>

(***************************************************************************)
(* fetch resolves with a response of some status.  The notification path   *)
(* answers at once; callUpstreamMcp awaits response.text() and reads the   *)
(* status and the headers only after it.                                   *)
(***************************************************************************)
FetchResolves(i, status) ==
    /\ inflight[i].pc = "fetch"
    /\ IF IsNotification(inflight[i].rpc)
       THEN /\ inflight' = [inflight EXCEPT ![i] = Idle]
            /\ last' = [ResponseEvent(i, inflight[i], inflight[i].calls,
                                      AckNotification(ClientSessionId(inflight[i].hdr)))
                            EXCEPT !.fetch = "resolved", !.status = status]
       ELSE /\ inflight' = [inflight EXCEPT ![i].pc = "text"]
            /\ last' = NoEvent
    /\ UNCHANGED <<sessionMap, nreq, initLog, decodeVars>>

(***************************************************************************)
(* response.text() rejects: the catch block answers.                       *)
(***************************************************************************)
TextRejects(i, status) ==
    /\ inflight[i].pc = "text"
    /\ inflight' = [inflight EXCEPT ![i] = Idle]
    /\ last' = [ResponseEvent(i, inflight[i], inflight[i].calls, CatchError("terminated"))
                    EXCEPT !.fetch = "resolved", !.text = "rejected", !.status = status]
    /\ UNCHANGED <<sessionMap, nreq, initLog, decodeVars>>

(***************************************************************************)
(* response.text() resolves with the body of the upstream's response:      *)
(* callUpstreamMcp returns or throws, and the initialize                   *)
(* path or the bound-call path runs to its response.                       *)
(***************************************************************************)
TextResolves(i, response, time, random) ==
    /\ inflight[i].pc = "text"
    /\ inflight' = [inflight EXCEPT ![i] = Idle]
    /\ LET r == inflight[i]
           result == UpstreamResult(ResponseOk(response.status), response.session,
                                    r.arg, response.body)
           proxySessionId == generateSessionId(time, random)
           stores == result.ok /\ IsInitialize(r.rpc) /\ Truthy(result.upstreamSessionId)
           res == IF ~result.ok THEN CatchError(result.msg)
                  ELSE IF IsInitialize(r.rpc)
                  THEN IF ~Truthy(result.upstreamSessionId)
                       THEN RejectNoUpstreamSession(r.rpc)
                       ELSE AnswerInitialize(proxySessionId, result.upstreamSessionId,
                                             result.payload)
                  ELSE AnswerCall(ClientSessionId(r.hdr), result.payload)
       IN /\ sessionMap' = IF stores
                           THEN MapSet(sessionMap, proxySessionId, result.upstreamSessionId)
                           ELSE sessionMap
          /\ initLog' = IF stores
                        THEN initLog \cup {<<proxySessionId, result.upstreamSessionId>>}
                        ELSE initLog
          /\ last' = [ResponseEvent(i, r, r.calls, res)
                          EXCEPT !.fetch = "resolved", !.text = "read",
                                 !.status = response.status,
                                 !.rhdr = response.session, !.body = response.body,
                                 !.gen = IF stores THEN proxySessionId ELSE Undefined]
    /\ UNCHANGED <<nreq, decodeVars>>

Next ==
    \/ \E hdr \in ClientHeaders, rpc \in RpcBodies : Receive(hdr, rpc)
    \/ \E i \in Slots : FetchRejects(i)
    \/ \E i \in Slots, status \in Statuses : FetchResolves(i, status)
    \/ \E i \in Slots, status \in Statuses : TextRejects(i, status)
    \/ \E i \in Slots, response \in UpstreamResponses, time \in Times, random \in Randoms :
          TextResolves(i, response, time, random)

Spec == Init /\ [][Next]_vars

(***************************************************************************)
(* The proxy with an upstream whose every call settles: the fetch of a     *)
(* suspended handler resolves or rejects, and so does response.text().     *)
(***************************************************************************)
Settle(i) ==
    \/ FetchRejects(i)
    \/ \E status \in Statuses : FetchResolves(i, status)
    \/ \E status \in Statuses : TextRejects(i, status)
    \/ \E response \in UpstreamResponses, time \in Times, random \in Randoms :
          TextResolves(i, response, time, random)

FairSpec == Spec /\ \A i \in Slots : WF_vars(Settle(i))

(***************************************************************************)
(* The SSE decoder on its own: extractFirstSseDataJson applied once to     *)
(* each text of up to MaxLines lines over SseLines.                        *)
(***************************************************************************)
MaxLines == 3

\* a line that only resembles a marked one: no space after the colon
DataNoSpace == Line("data:", "{\"result\":\"a\"}")

SseLines == {DataA, DataB, DataBad, DataNoSpace, Event, Blank}

RECURSIVE Texts(_)
Texts(n) ==
    IF n = 0
    THEN {<<>>}
    ELSE LET shorter == Texts(n - 1)
         IN shorter \cup {Append(t, l) : t \in {u \in shorter : Len(u) = n - 1}, l \in SseLines}

SseTexts == Texts(MaxLines)

DecodeInit ==
    /\ sessionMap = <<>>
    /\ inflight = [i \in Slots |-> Idle]
    /\ nreq = 0
    /\ last = NoEvent
    /\ initLog = {}
    /\ sseText \in SseTexts
    /\ decoded = NotDecoded

Decode ==
    /\ decoded = NotDecoded
    /\ decoded' = extractFirstSseDataJson(sseText)
    /\ UNCHANGED <<sseText, vars>>

DecodeNext == Decode

DecodeSpec == DecodeInit /\ [][DecodeNext]_<<vars, decodeVars>>

(***************************************************************************)
(* Vocabulary of the properties, stated on the request and the outcome as  *)
(* a client and the upstream see them.                                     *)
(***************************************************************************)
Responded == last.type = "response"
Forwarded == last.type = "upcall"
Handled == Responded \/ Forwarded

WellFormed(rpc) == rpc.shape = "object" /\ rpc.method.type = "string"
NotificationRequest(rpc) == WellFormed(rpc) /\ rpc.method.head = "notifications/"
InitializeRequest(rpc) ==
    WellFormed(rpc) /\ rpc.method.head = "initialize" /\ rpc.method.tail = ""
BoundRequest(rpc) ==
    WellFormed(rpc) /\ ~NotificationRequest(rpc) /\ ~InitializeRequest(rpc)

\* the session header names a Session Table entry
KnownSession(hdr) == hdr \in DOMAIN sessionMap

TableValues == {sessionMap[k] : k \in DOMAIN sessionMap}
IssuedProxyIds == {p[1] : p \in initLog}

\* the answer is a JSON-RPC error object of the given status and code
IsError(res, status, code) ==
    /\ res.ended = 1
    /\ res.status = status
    /\ res.body.kind = "error"
    /\ res.body.code = code

\* the upstream's body holds no line starting with the data marker
NoDataLine(body) == \A i \in 1..Len(body) : body[i].prefix # "data: "
\* the remainder of the first marked line is not a JSON text
FirstDataLineInvalid(body) ==
    \E i \in 1..Len(body) :
        /\ body[i].prefix = "data: "
        /\ \A j \in 1..(i - 1) : body[j].prefix # "data: "
        /\ body[i].rest \notin {"{\"result\":\"a\"}", "{\"result\":\"b\"}"}

\* how the upstream call of the answered request failed ("": it did not)
UpstreamFailure ==
    IF last.fetch = "rejected" THEN "fetch failed"
    ELSE IF last.text = "rejected" THEN "terminated"
    ELSE IF last.text = "read" /\ last.status \notin 200..299 THEN "Upstream MCP error"
    ELSE IF last.text = "read" /\ NoDataLine(last.body) THEN "No SSE data line found"
    ELSE IF last.text = "read" /\ FirstDataLineInvalid(last.body) THEN "Unexpected token"
    ELSE ""

(***************************************************************************)
(* C1: whenever a response of POST /mcp carries an Mcp-Session-Id header,  *)
(* the header is a proxy session id issued by an initialize and a key of   *)
(* the Session Table, never an upstream session id held as a value of the  *)
(* table: the id just generated on initialize, the client's own id on      *)
(* bound calls and notifications.                                          *)
(***************************************************************************)
C1_HeaderIsProxySessionId ==
    (Responded /\ last.res.session # Undefined) =>
        /\ last.res.session \in DOMAIN sessionMap
        /\ last.res.session \in IssuedProxyIds
        /\ last.res.session \notin TableValues
        /\ InitializeRequest(last.rpc) => last.res.session = last.gen
        /\ ~InitializeRequest(last.rpc) => last.res.session = last.hdr

C1_Witness ==
    /\ Responded
    /\ InitializeRequest(last.rpc)
    /\ last.res.status = 200
    /\ last.res.session \in DOMAIN sessionMap

(***************************************************************************)
(* C2: once an initialize has succeeded with proxy id P and upstream id U, *)
(* every later bound call with header P is forwarded with session header U.*)
(* Fails: a later initialize may draw P again (C7) and rebind it.          *)
(***************************************************************************)
C2_BoundCallKeepsUpstreamId ==
    (Forwarded /\ BoundRequest(last.rpc)) =>
        \A p \in initLog : p[1] = last.hdr => last.sent = p[2]

(***************************************************************************)
(* C3: the Session Table changes only when an initialize succeeds, and     *)
(* then by exactly one new entry; every other outcome leaves it as it was. *)
(* Fails: an initialize that draws an id already in the table (C7) adds no *)
(* entry.                                                                  *)
(***************************************************************************)
InitializeSucceeded(e) ==
    /\ e.type = "response"
    /\ InitializeRequest(e.rpc)
    /\ e.res.status = 200

C3_TableChangesOnlyByNewEntry ==
    [][ IF InitializeSucceeded(last')
        THEN /\ Cardinality(DOMAIN sessionMap') = Cardinality(DOMAIN sessionMap) + 1
             /\ \A k \in DOMAIN sessionMap :
                   k \in DOMAIN sessionMap' /\ sessionMap'[k] = sessionMap[k]
        ELSE sessionMap' = sessionMap ]_vars

(***************************************************************************)
(* C4: a request whose method is neither initialize nor a notification and *)
(* whose session header is absent or no key of the Session Table is        *)
(* answered with HTTP 400 and JSON-RPC error -32000, whatever the method,  *)
(* and no upstream call is made for it.                                    *)
(***************************************************************************)
C4_UnknownSessionRefused ==
    [][ (last'.type # "none" /\ BoundRequest(last'.rpc) /\ ~KnownSession(last'.hdr)) =>
            /\ last'.type = "response"
            /\ IsError(last'.res, 400, -32000)
            /\ last'.calls = 0
            /\ last'.sent = Undefined
            /\ inflight' = inflight ]_vars

C4_Witness ==
    /\ Responded
    /\ last.rpc.method = Str("notifications", "")
    /\ last.hdr = UpstreamId(1)
    /\ UpstreamId(1) \in TableValues
    /\ last.res.status = 400

(***************************************************************************)
(* C5: every failure reaches the client as a JSON-RPC error object, the    *)
(* notification without a session excepted; in particular a forwarded      *)
(* notification the upstream answers with a non-success status is answered *)
(* with HTTP 500 and error -32000, not with 204.                           *)
(* Fails: the notification path never looks at the upstream's status.      *)
(***************************************************************************)
C5_EveryFailureIsAnError ==
    /\ (Responded /\ last.calls = 1 /\ last.fetch = "resolved"
           /\ last.status \notin 200..299) => IsError(last.res, 500, -32000)
    /\ (Responded /\ (~WellFormed(last.rpc) \/ last.fetch = "rejected"
                         \/ last.text = "rejected"))
          => last.res.body.kind = "error"

(***************************************************************************)
(* C6: when the upstream call of an initialize or of a bound call with a   *)
(* resolved session fails (transport, non-success status, no data line,    *)
(* invalid JSON after the marker), the request is answered, once, with     *)
(* HTTP 500 and a JSON-RPC error -32000 carrying the failure's message.    *)
(***************************************************************************)
C6_UpstreamFailureIs500 ==
    (Responded /\ last.calls = 1 /\ ~NotificationRequest(last.rpc)
        /\ UpstreamFailure # "") =>
        /\ IsError(last.res, 500, -32000)
        /\ last.res.body.msg = UpstreamFailure

C6_Witness ==
    /\ Responded
    /\ BoundRequest(last.rpc)
    /\ last.text = "read"
    /\ last.status = 404
    /\ ~NoDataLine(last.body)
    /\ last.res.status = 500

(***************************************************************************)
(* C7: every successful initialize produces a proxy session id no earlier  *)
(* successful initialize produced, so none overwrites a Session Table      *)
(* entry.                                                                  *)
(* Fails: generateSessionId repeats when Date.now() and Math.random() do.  *)
(***************************************************************************)
C7_ProxySessionIdIsFresh ==
    [][ InitializeSucceeded(last') =>
            /\ last'.gen \notin IssuedProxyIds
            /\ last'.gen \notin DOMAIN sessionMap ]_vars

(***************************************************************************)
(* C8: a notification whose session header is absent or no key of the      *)
(* Session Table is answered with HTTP 204 and an empty body, and no       *)
(* upstream call is made for it.                                           *)
(***************************************************************************)
C8_UnknownNotificationAcked ==
    [][ (last'.type # "none" /\ NotificationRequest(last'.rpc) /\ ~KnownSession(last'.hdr)) =>
            /\ last'.type = "response"
            /\ last'.res.ended = 1
            /\ last'.res.status = 204
            /\ last'.res.body.kind = "empty"
            /\ last'.calls = 0
            /\ last'.sent = Undefined
            /\ inflight' = inflight ]_vars

C8_Witness ==
    /\ Responded
    /\ NotificationRequest(last.rpc)
    /\ last.hdr \in ProxyIds
    /\ ~KnownSession(last.hdr)
    /\ sessionMap # <<>>
    /\ last.res.status = 204

(***************************************************************************)
(* C9, as claimed: a notification whose header P is a key of the Session   *)
(* Table causes exactly one upstream call, with the upstream id mapped     *)
(* from P, and is then answered with 204 and header P, after the call has  *)
(* returned.                                                               *)
(***************************************************************************)
C9_KnownNotificationAcked ==
    /\ (Forwarded /\ NotificationRequest(last.rpc)) =>
          /\ KnownSession(last.hdr)
          /\ last.sent = sessionMap[last.hdr]
          /\ last.calls = 1
    /\ (Handled /\ NotificationRequest(last.rpc) /\ KnownSession(last.hdr)) =>
          /\ last.calls = 1
          /\ Responded =>
                /\ last.fetch = "resolved"
                /\ last.res.ended = 1
                /\ last.res.status = 204
                /\ last.res.session = last.hdr

(***************************************************************************)
(* C9, amended: such a notification causes exactly one upstream call, with *)
(* the upstream id mapped from P when it arrived, and is answered only     *)
(* after that call settled: with 204, an empty body and header P when the  *)
(* upstream returned a response of any status, with HTTP 500, error -32000 *)
(* and no session header when the call failed in transport.                *)
(***************************************************************************)
C9_KnownNotificationAckedOrFailed ==
    /\ (Forwarded /\ NotificationRequest(last.rpc)) =>
          /\ KnownSession(last.hdr)
          /\ last.sent = sessionMap[last.hdr]
          /\ last.calls = 1
    /\ (Handled /\ NotificationRequest(last.rpc) /\ KnownSession(last.hdr)) =>
          /\ last.calls = 1
          /\ last.sent \in UpstreamIds
          /\ Responded =>
                /\ last.fetch \in {"resolved", "rejected"}
                /\ last.res.ended = 1
                /\ last.fetch = "resolved" =>
                      /\ last.res.status = 204
                      /\ last.res.body.kind = "empty"
                      /\ last.res.session = last.hdr
                /\ last.fetch = "rejected" =>
                      /\ IsError(last.res, 500, -32000)
                      /\ last.res.session = Undefined

C9_Witness ==
    /\ Responded
    /\ NotificationRequest(last.rpc)
    /\ KnownSession(last.hdr)
    /\ last.fetch = "resolved"
    /\ last.status = 404
    /\ last.res.status = 204

(***************************************************************************)
(* C10: a malformed body (no object, no method, a method that is no        *)
(* string) is answered with HTTP 400 and JSON-RPC error -32600 whatever    *)
(* its session header; it causes no upstream call and no Session Table     *)
(* read or write.                                                          *)
(***************************************************************************)
C10_MalformedRefused ==
    [][ (last'.type # "none" /\ ~WellFormed(last'.rpc)) =>
            /\ last'.type = "response"
            /\ IsError(last'.res, 400, -32600)
            /\ last'.calls = 0
            /\ last'.sent = Undefined
            /\ last'.reads = 0
            /\ inflight' = inflight
            /\ sessionMap' = sessionMap ]_vars

C10_Witness ==
    /\ Responded
    /\ last.rpc.shape = "object"
    /\ last.rpc.method.type = "number"
    /\ KnownSession(last.hdr)
    /\ last.res.status = 400

(***************************************************************************)
(* C11: when the upstream call of an initialize succeeds (success status,  *)
(* decodable body) but brings no upstream session id, the request is       *)
(* answered with HTTP 500 and JSON-RPC error -32000, no proxy session id   *)
(* is generated or sent in a header, and the Session Table gets no entry.  *)
(***************************************************************************)
\* the upstream's response to the answered request carries no session id
NoUpstreamSessionId(e) == e.text = "read" /\ e.rhdr \in {Null, Empty}

C11_InitializeWithoutUpstreamSession ==
    [][ (last'.type = "response" /\ InitializeRequest(last'.rpc)
            /\ UpstreamFailure' = "" /\ NoUpstreamSessionId(last')) =>
            /\ IsError(last'.res, 500, -32000)
            /\ last'.res.session = Undefined
            /\ last'.gen = Undefined
            /\ sessionMap' = sessionMap ]_vars

C11_Witness ==
    /\ Responded
    /\ InitializeRequest(last.rpc)
    /\ UpstreamFailure = ""
    /\ last.rhdr = Empty
    /\ last.res.status = 500
    /\ last.res.body.msg = "Upstream did not return Mcp-Session-Id"

(***************************************************************************)
(* C12: every JSON-RPC error the proxy itself builds (invalid request,     *)
(* missing or unknown session, no upstream session id, the failure caught  *)
(* at the router boundary) carries the id of the request it answers        *)
(* whenever that request had one.                                          *)
(* Fails: the invalid-request answer and the catch block send id: null.    *)
(* (A suspended bound call or notification no longer holds rpc.id, so its  *)
(* request counts here as having none.)                                    *)
(***************************************************************************)
C12_ErrorMirrorsRequestId ==
    (Responded /\ last.res.body.kind = "error" /\ last.rpc.id # NoId) =>
        last.res.body.id = last.rpc.id

(***************************************************************************)
(* C13, as claimed: every response on a success path (200 for initialize   *)
(* and bound calls, 204 for notifications) carries an Mcp-Session-Id       *)
(* header holding the proxy session id.                                    *)
(***************************************************************************)
C13_SuccessCarriesSessionHeader ==
    (Responded /\ last.res.status \in {200, 204}) =>
        /\ last.res.session \in ProxyIds
        /\ last.res.session \in DOMAIN sessionMap

(***************************************************************************)
(* C13, amended: every 200 response and every 204 response to a            *)
(* notification whose session header is a key of the Session Table carries *)
(* the proxy session id (the generated one, the client's own); the 204     *)
(* response to a notification without a known session carries no           *)
(* Mcp-Session-Id header.                                                  *)
(***************************************************************************)
C13_SuccessCarriesSessionHeaderIfKnown ==
    (Responded /\ last.res.status \in {200, 204}) =>
        IF NotificationRequest(last.rpc) /\ ~KnownSession(last.hdr)
        THEN last.res.session = Undefined
        ELSE /\ last.res.session \in ProxyIds
             /\ last.res.session \in DOMAIN sessionMap
             /\ InitializeRequest(last.rpc) => last.res.session = last.gen
             /\ ~InitializeRequest(last.rpc) => last.res.session = last.hdr

C13_Witness ==
    /\ Responded
    /\ BoundRequest(last.rpc)
    /\ last.res.status = 200
    /\ last.res.body.kind = "payload"
    /\ last.res.session = last.hdr
    /\ last.hdr \in ProxyIds

(***************************************************************************)
(* C14: the decoder takes the lines of the text in order and decides on    *)
(* the first line that begins with 'data: ': with no such line it throws   *)
(* the decode error; otherwise its outcome is that of parsing the          *)
(* remainder of that first line as JSON, a parse error included even when  *)
(* a later marked line holds valid JSON; and it changes neither its input  *)
(* nor any state of the proxy.                                             *)
(***************************************************************************)
\* line i of the text is marked and no line before it is
FirstMarked(text, i) ==
    /\ i \in 1..Len(text)
    /\ text[i].prefix = "data: "
    /\ \A j \in 1..(i - 1) : text[j].prefix # "data: "

C14_DecoderDecidesOnFirstDataLine ==
    [][ /\ NoDataLine(sseText) => decoded' = Throw("No SSE data line found")
        /\ \A i \in 1..Len(sseText) :
              FirstMarked(sseText, i) => decoded' = JSONparse(sseText[i].rest)
        /\ FirstDataLineInvalid(sseText) =>
              ~decoded'.ok /\ decoded'.msg = "Unexpected token"
        /\ sseText' = sseText
        /\ UNCHANGED vars ]_<<vars, decodeVars>>

C14_Witness ==
    /\ sseText = <<Event, DataBad, DataA>>
    /\ ~decoded.ok
    /\ decoded.msg = "Unexpected token"

(***************************************************************************)
(* C15: no inbound request causes more than one upstream call: a request   *)
(* that is forwarded is forwarded once, in the step it arrives in, and no  *)
(* later step of its handler (the upstream's failure included) calls the   *)
(* upstream again; a request answered with HTTP 400, and a notification    *)
(* without a known session answered with HTTP 204, cause no call at all.   *)
(***************************************************************************)
C15_AtMostOneUpstreamCall ==
    [][ /\ last'.type # "none" => last'.calls <= 1
        /\ last'.type = "upcall" =>
              /\ last'.calls = 1
              /\ nreq' = nreq + 1
              /\ inflight[last'.slot].pc = "idle"
        /\ (last'.type = "response" /\ UpstreamFailure' # "") => last'.calls = 1
        /\ (last'.type = "response" /\ last'.slot # 0) =>
              /\ nreq' = nreq
              /\ inflight'[last'.slot].pc = "idle"
        /\ (last'.type = "response"
               /\ \/ last'.res.status = 400
                  \/ NotificationRequest(last'.rpc) /\ ~KnownSession(last'.hdr)) =>
              /\ last'.calls = 0
              /\ last'.slot = 0
              /\ inflight' = inflight ]_vars

C15_Witness ==
    /\ Responded
    /\ UpstreamFailure = "fetch failed"
    /\ BoundRequest(last.rpc)
    /\ last.calls = 1
    /\ last.res.status = 500

(***************************************************************************)
(* C16: an initialize request is forwarded without any Mcp-Session-Id      *)
(* header, whatever header the client sent (one naming an existing proxy   *)
(* session included); when it succeeds, the entry it creates is under a    *)
(* proxy id that was not a key before, and every entry that existed keeps  *)
(* its upstream id.                                                        *)
(* The first half holds; the second fails when generateSessionId repeats   *)
(* (C7).  A suspended initialize no longer holds the client's header (the  *)
(* path never reads it again), so the second half is stated for every      *)
(* existing entry, the one the client named among them.                    *)
(***************************************************************************)
C16_InitializeIgnoresClientSession ==
    [][ /\ (last'.type = "upcall" /\ InitializeRequest(last'.rpc)) =>
              /\ last'.sent = Undefined
              /\ last'.reads = 0
        /\ InitializeSucceeded(last') =>
              /\ last'.sent = Undefined
              /\ last'.gen \notin DOMAIN sessionMap
              /\ last'.gen \in DOMAIN sessionMap'
              /\ \A P \in DOMAIN sessionMap :
                    P \in DOMAIN sessionMap' /\ sessionMap'[P] = sessionMap[P] ]_vars

(***************************************************************************)
(* C17: the Session Table only grows: in no step is an entry removed or    *)
(* the upstream id of an existing entry changed.                           *)
(* No entry is ever removed; a value changes when generateSessionId        *)
(* repeats (C7).                                                           *)
(***************************************************************************)
C17_SessionTableOnlyGrows ==
    [][ \A k \in DOMAIN sessionMap :
            k \in DOMAIN sessionMap' /\ sessionMap'[k] = sessionMap[k] ]_vars

(***************************************************************************)
(* C18: every value the Session Table holds is a non-empty upstream        *)
(* session id that the upstream returned, in its response header, to the   *)
(* initialize call whose answer stored it; and every Mcp-Session-Id header *)
(* the proxy sends upstream is the table's value for the client's header:  *)
(* never an id of the proxy's own making, never the client's header.       *)
(***************************************************************************)
C18_UpstreamIdsComeFromUpstream ==
    [][ /\ \A k \in DOMAIN sessionMap' :
              (k \notin DOMAIN sessionMap \/ sessionMap'[k] # sessionMap[k]) =>
                  /\ InitializeSucceeded(last')
                  /\ last'.text = "read"
                  /\ last'.rhdr \in UpstreamIds
                  /\ k = last'.gen
                  /\ sessionMap'[k] = last'.rhdr
        /\ TableValues' \subseteq UpstreamIds
        /\ (last'.type = "upcall" /\ last'.sent # Undefined) =>
              /\ ~InitializeRequest(last'.rpc)
              /\ KnownSession(last'.hdr)
              /\ last'.sent = sessionMap[last'.hdr]
              /\ last'.sent \in TableValues
              /\ last'.sent # last'.hdr
              /\ last'.sent \notin ProxyIds ]_vars

C18_Witness ==
    /\ Forwarded
    /\ BoundRequest(last.rpc)
    /\ KnownSession(last.hdr)
    /\ last.sent = sessionMap[last.hdr]
    /\ last.sent \in UpstreamIds

(***************************************************************************)
(* C19: whatever else is in flight, each request is answered from its own  *)
(* upstream result: the proxy id returned by a successful initialize is    *)
(* mapped in the Session Table to the upstream id returned for that same   *)
(* request, and the body of a 200 response is the payload decoded from     *)
(* the upstream response to that same request.                             *)
(* The body half holds, and so does the mapping at the moment of the       *)
(* answer; the mapping is lost to another request's upstream id when       *)
(* generateSessionId repeats (C7).                                         *)
(***************************************************************************)
C19_AnsweredFromOwnUpstreamResult ==
    /\ \A p \in initLog : p[1] \in DOMAIN sessionMap /\ sessionMap[p[1]] = p[2]
    /\ (Responded /\ last.res.status = 200) =>
          /\ last.text = "read"
          /\ \E i \in 1..Len(last.body) :
                /\ FirstMarked(last.body, i)
                /\ last.res.body = PayloadBody(JSONparse(last.body[i].rest).value)
          /\ InitializeRequest(last.rpc) =>
                /\ last.res.session = last.gen
                /\ <<last.gen, last.rhdr>> \in initLog

(***************************************************************************)
(* C20: with an upstream whose every call returns or fails, every request  *)
(* receives exactly one response: a suspended handler's request is         *)
(* eventually answered, each answer ends the response once, and a handler  *)
(* is answered exactly when it leaves its slot; a request that needs no    *)
(* upstream call is answered in the step it arrives in, whatever calls of  *)
(* other requests are still in flight.                                     *)
(***************************************************************************)
C20_EveryRequestAnsweredOnce ==
    /\ \A i \in Slots :
          (inflight[i].pc # "idle") ~>
              (last.type = "response" /\ last.slot = i /\ last.res.ended = 1)
    /\ [][ /\ last'.type = "response" => last'.res.ended = 1
           /\ \A i \in Slots :
                 (inflight[i].pc # "idle" /\ inflight'[i].pc = "idle")
                     <=> (last'.type = "response" /\ last'.slot = i)
           /\ nreq' = nreq + 1 => last'.type \in {"response", "upcall"}
           /\ (last'.type = "response" /\ last'.slot = 0) =>
                 /\ nreq' = nreq + 1
                 /\ inflight' = inflight
           /\ (last'.type = "upcall") =>
                 /\ nreq' = nreq + 1
                 /\ inflight[last'.slot].pc = "idle"
                 /\ inflight'[last'.slot].pc = "fetch" ]_vars

C20_Witness ==
    /\ Responded
    /\ last.slot = 0
    /\ last.res.status = 400
    /\ last.res.ended = 1
    /\ \A i \in Slots : inflight[i].pc # "idle"

=============================================================================
